---- MODULE Spec2Model ----
(***************************************************************************)
(* Model of two parts of the Keeper Secrets Manager Python SDK:            *)
(*   - get_totp_code (keeper_secrets_manager_core/utils.py), the TOTP      *)
(*     generator, called by a client at the times of a wall clock;         *)
(*   - FileKeyValueStorage (keepercommandersm/storage.py), the JSON file   *)
(*     backed key/value store.                                             *)
(* Text is a sequence of one-character strings.  Python integers have no   *)
(* width, so an integer read from the URI is a sequence of bits, most      *)
(* significant first, without leading zeros (<<>> is 0).                   *)
(***************************************************************************)
EXTENDS Integers, Sequences, FiniteSets, TLC

VARIABLES
    url,        \* the otpauth URI the client holds: [scheme, query]
    oracle,     \* which HMAC function the run is checked against
    clock,      \* the wall clock, whole seconds since the epoch
    last,       \* the most recent call of get_totp_code: [t, out]
    prev,       \* the call before it
    file,       \* the config file: [exists, text]
    shadow,     \* the map a caller expects after its calls so far
    ret         \* the last storage call: [op, key, value, result]

totpVars == <<url, oracle, clock, last, prev>>
storageVars == <<file, shadow, ret>>
vars == <<url, oracle, clock, last, prev, file, shadow, ret>>

\* ---------------------------------------------------------------- bounds
MaxTicks == 3         \* seconds the clock advances after each start time
MaxSecretLen == 9     \* longest secret of the secret-length family
MaxDup == 2           \* how often one numeric key repeats in a query

\* ---------------------------------------------------------------- integers
\* Operators over a whole bit sequence split it in halves, which keeps the
\* depth of evaluation logarithmic in its length.
StripZeros(b) ==
    LET ones == {i \in 1..Len(b) : b[i] = 1}
    IN  IF ones = {} THEN <<>>
        ELSE SubSeq(b, CHOOSE i \in ones : \A j \in ones : i <= j, Len(b))

RECURSIVE NatToBits(_)
NatToBits(n) == IF n = 0 THEN <<>> ELSE Append(NatToBits(n \div 2), n % 2)

RECURSIVE BitsToNat(_,_)
BitsToNat(b, i) == IF i = 0 THEN 0 ELSE 2 * BitsToNat(b, i - 1) + b[i]

\* the value of a small integer
ToNat(b) == BitsToNat(b, Len(b))

Reverse(s) == [i \in 1..Len(s) |-> s[Len(s) + 1 - i]]

\* b[lo..hi] * m + c, worked from the low end: the low hi-lo+1 bits of the
\* result (least significant first) and what carries out of them
RECURSIVE MulAddRange(_,_,_,_,_)
MulAddRange(b, lo, hi, m, c) ==
    IF lo > hi THEN [low |-> <<>>, carry |-> c]
    ELSE IF lo = hi
    THEN LET v == b[lo] * m + c IN [low |-> <<v % 2>>, carry |-> v \div 2]
    ELSE LET mid == (lo + hi) \div 2
             right == MulAddRange(b, mid + 1, hi, m, c)
             left == MulAddRange(b, lo, mid, m, right.carry)
         IN  [low |-> right.low \o left.low, carry |-> left.carry]

\* b * m + c for small m and c
MulAdd(b, m, c) ==
    IF b = <<>> THEN NatToBits(c)
    ELSE LET p == MulAddRange(b, 1, Len(b), m, c)
         IN  StripZeros(Reverse(p.low \o Reverse(NatToBits(p.carry))))

\* b + 1
Inc(b) == MulAdd(b, 1, 1)

\* long division of b[lo..hi] by the small integer d, r carried in: the
\* quotient's hi-lo+1 bits and the remainder
RECURSIVE DivRange(_,_,_,_,_)
DivRange(b, lo, hi, d, r) ==
    IF lo > hi THEN [q |-> <<>>, r |-> r]
    ELSE IF lo = hi
    THEN LET cur == 2 * r + b[lo]
         IN  IF cur >= d THEN [q |-> <<1>>, r |-> cur - d]
             ELSE [q |-> <<0>>, r |-> cur]
    ELSE LET mid == (lo + hi) \div 2
             left == DivRange(b, lo, mid, d, r)
             right == DivRange(b, mid + 1, hi, d, left.r)
         IN  [q |-> left.q \o right.q, r |-> right.r]

\* divmod(b, d)
DivMod(b, d) ==
    LET p == DivRange(b, 1, Len(b), d, 0) IN [q |-> StripZeros(p.q), r |-> p.r]

Zeros(n) == [i \in 1..n |-> 0]

RECURSIVE Pow2(_)
Pow2(n) == IF n = 0 THEN 1 ELSE 2 * Pow2(n - 1)

\* int(a / d): Python's true division gives the double nearest to a/d (ties to
\* even, 53 significant bits) and int() drops its fraction.  d < 2^15.
IntTrueDiv(a, d) ==
    LET dm == DivMod(a, d)
        q == dm.q
        r == dm.r
        L == Len(q)
    IN  IF L >= 54
        THEN LET kept == SubSeq(q, 1, 53)
                 half == q[54] = 1
                 sticky == r > 0 \/ \E i \in 55..L : q[i] = 1
                 up == half /\ (sticky \/ kept[53] = 1)
             IN  (IF up THEN Inc(kept) ELSE kept) \o Zeros(L - 53)
        ELSE IF L = 53
        THEN IF 2 * r > d \/ (2 * r = d /\ q[53] = 1) THEN Inc(q) ELSE q
        ELSE LET t == 53 - L
             IN  IF r > 0 /\ t + 1 <= 15 /\ (d - r) * Pow2(t + 1) <= d
                 THEN Inc(q) ELSE q

\* ---------------------------------------------------------------- text
\* The characters str.isdecimal() accepts, with their digit values; "ar3" is
\* ARABIC-INDIC DIGIT THREE (U+0663).
DecimalValue ==
    ("0" :> 0) @@ ("1" :> 1) @@ ("2" :> 2) @@ ("3" :> 3) @@ ("4" :> 4) @@
    ("5" :> 5) @@ ("6" :> 6) @@ ("7" :> 7) @@ ("8" :> 8) @@ ("9" :> 9) @@
    ("ar3" :> 3)

\* Characters str.isnumeric() accepts and int() rejects: "sup2" is SUPERSCRIPT
\* TWO (U+00B2), "half" is VULGAR FRACTION ONE HALF (U+00BD).
OtherNumeric == {"sup2", "half"}

\* str.isnumeric()
IsNumeric(v) ==
    /\ v # <<>>
    /\ \A i \in 1..Len(v) : v[i] \in DOMAIN DecimalValue \cup OtherNumeric

\* int(v) raises ValueError (for a v that isnumeric() accepts)
IntRaises(v) == \E i \in 1..Len(v) : v[i] \notin DOMAIN DecimalValue

\* int(v[1..n])
RECURSIVE IntOfAt(_,_)
IntOfAt(v, n) ==
    IF n = 0 THEN <<>> ELSE MulAdd(IntOfAt(v, n - 1), 10, DecimalValue[v[n]])

IntOf(v) == IntOfAt(v, Len(v))

UpperCase ==
    <<"A", "B", "C", "D", "E", "F", "G", "H", "I", "J", "K", "L", "M",
      "N", "O", "P", "Q", "R", "S", "T", "U", "V", "W", "X", "Y", "Z">>

LowerCase ==
    <<"a", "b", "c", "d", "e", "f", "g", "h", "i", "j", "k", "l", "m",
      "n", "o", "p", "q", "r", "s", "t", "u", "v", "w", "x", "y", "z">>

UpperChar(c) ==
    IF \E i \in 1..26 : LowerCase[i] = c
    THEN UpperCase[CHOOSE i \in 1..26 : LowerCase[i] = c]
    ELSE c

\* str.upper()
Upper(s) == [i \in 1..Len(s) |-> UpperChar(s[i])]

DigitChars == <<"0", "1", "2", "3", "4", "5", "6", "7", "8", "9">>

\* str(n) for n >= 0
RECURSIVE Str(_)
Str(n) ==
    IF n < 10 THEN <<DigitChars[n + 1]>>
    ELSE Append(Str(n \div 10), DigitChars[(n % 10) + 1])

\* str.zfill(w)
Zfill(s, w) == IF Len(s) >= w THEN s ELSE [i \in 1..(w - Len(s)) |-> "0"] \o s

RECURSIVE Pow10(_)
Pow10(n) == IF n = 0 THEN 1 ELSE 10 * Pow10(n - 1)

\* ---------------------------------------------------------------- base32
B32Alphabet == UpperCase \o <<"2", "3", "4", "5", "6", "7">>

B32Val(c) == (CHOOSE i \in 1..32 : B32Alphabet[i] = c) - 1

Bits5(n) ==
    <<(n \div 16) % 2, (n \div 8) % 2, (n \div 4) % 2, (n \div 2) % 2, n % 2>>

\* bytes.rstrip(b'=')
RECURSIVE RStripPad(_)
RStripPad(s) ==
    IF s # <<>> /\ s[Len(s)] = "=" THEN RStripPad(SubSeq(s, 1, Len(s) - 1)) ELSE s

\* the 5-bit groups of s[1..n], joined
RECURSIVE Quanta(_,_)
Quanta(s, n) ==
    IF n = 0 THEN <<>> ELSE Quanta(s, n - 1) \o Bits5(B32Val(s[n]))

\* base64.b32decode(s, casefold=True): [ok, key], the key as bits; ok is FALSE
\* where it raises binascii.Error.
B32Decode(s) ==
    LET l == Len(s)
        stripped == RStripPad(Upper(s))
        padchars == l - Len(stripped)
        leftover == (43 - 5 * padchars) \div 8
        nbytes == IF padchars > 0 THEN 5 * (l \div 8) - 5 + leftover
                  ELSE 5 * (l \div 8)
        fail == [ok |-> FALSE, key |-> <<>>]
    IN  IF l % 8 # 0 THEN fail
        ELSE IF \E i \in 1..Len(stripped) :
                    \A j \in 1..32 : B32Alphabet[j] # stripped[i]
        THEN fail
        ELSE IF padchars \notin {0, 1, 3, 4, 6} THEN fail
        ELSE [ok |-> TRUE,
              key |-> SubSeq(Quanta(stripped, Len(stripped)) \o Zeros(5 * padchars),
                             1, 8 * nbytes)]

\* ---------------------------------------------------------------- HMAC
\* hashlib's digest_size
DigestSize(alg) ==
    IF alg = <<"S", "H", "A", "1">> THEN 20
    ELSE IF alg = <<"S", "H", "A", "2", "5", "6">> THEN 32
    ELSE 64

RECURSIVE WSum(_,_,_)
WSum(b, lo, hi) ==
    IF lo > hi THEN 0
    ELSE IF lo = hi THEN b[lo] * (3 * lo + 1)
    ELSE WSum(b, lo, (lo + hi) \div 2) + WSum(b, (lo + hi) \div 2 + 1, hi)

\* hmac.new(key, msg, digestmod).digest() is the standard library's.  What the
\* caller relies on is a function of (key, msg, hash) giving digest_size bytes;
\* the model runs against three such functions: "mix" depends on every input,
\* "low" and "high" give the digests that truncate to 42 and to 2^31 - 1.
Hmac(orc, key, msg, alg) ==
    LET size == DigestSize(alg)
        seed == (7 * WSum(key, 1, Len(key)) + 13 * WSum(msg, 1, Len(msg)) + size)
                % 65521
    IN  [i \in 1..size |->
            IF orc = "mix"
            THEN ((seed + 1) * (37 * i + 11) + i * i * (seed % 251)) % 256
            ELSE IF orc = "low" THEN (IF i \in {14, size} THEN 42 ELSE 0)
            ELSE 255]

\* ---------------------------------------------------------------- get_totp_code
DefaultDigits == 6
DefaultPeriod == 30
DefaultCounter == 0

SHA1 == <<"S", "H", "A", "1">>
SHA256 == <<"S", "H", "A", "2", "5", "6">>
SHA512 == <<"S", "H", "A", "5", "1", "2">>

\* parse.parse_qsl(comp.query): the query is the list of its key=value pairs,
\* percent-decoded; pairs with a blank value are dropped (keep_blank_values
\* is off).
ParseQsl(query) == SelectSeq(query, LAMBDA kv : kv.v # <<>>)

InitParams ==
    [raised |-> FALSE, hasSecret |-> FALSE, secret |-> <<>>, algorithm |-> SHA1,
     digits |-> NatToBits(DefaultDigits), period |-> NatToBits(DefaultPeriod),
     counter |-> NatToBits(DefaultCounter)]

\* int(v) if v.isnumeric() and int(v) > 0 else cur
NumericParam(v, cur) ==
    IF ~IsNumeric(v) THEN [raised |-> FALSE, val |-> cur]
    ELSE IF IntRaises(v) THEN [raised |-> TRUE, val |-> cur]
    ELSE IF IntOf(v) # <<>> THEN [raised |-> FALSE, val |-> IntOf(v)]
    ELSE [raised |-> FALSE, val |-> cur]

\* one turn of the loop over the query's pairs
StepParam(p, kv) ==
    IF p.raised THEN p
    ELSE IF kv.k = "secret" THEN [p EXCEPT !.hasSecret = TRUE, !.secret = kv.v]
    ELSE IF kv.k = "algorithm" THEN [p EXCEPT !.algorithm = kv.v]
    ELSE IF kv.k = "digits"
    THEN LET n == NumericParam(kv.v, p.digits)
         IN  [p EXCEPT !.raised = n.raised, !.digits = n.val]
    ELSE IF kv.k = "period"
    THEN LET n == NumericParam(kv.v, p.period)
         IN  [p EXCEPT !.raised = n.raised, !.period = n.val]
    ELSE IF kv.k = "counter"
    THEN LET n == NumericParam(kv.v, p.counter)
         IN  [p EXCEPT !.raised = n.raised, !.counter = n.val]
    ELSE p

RECURSIVE ParseParamsAt(_,_)
ParseParamsAt(pairs, i) ==
    IF i = 0 THEN InitParams ELSE StepParam(ParseParamsAt(pairs, i - 1), pairs[i])

ParseParams(query) ==
    LET pairs == ParseQsl(query) IN ParseParamsAt(pairs, Len(pairs))

\* MovingFactor as it would be if the counter were ignored
MovingFactorAlwaysClock(counter, now) ==
    [tm_base |-> NatToBits(now), clock_read |-> TRUE]

\* counter if counter > 0 else int(datetime.datetime.now().timestamp())
MovingFactor(counter, now) ==
    IF counter # <<>>
    THEN [tm_base |-> counter, clock_read |-> FALSE]
    ELSE [tm_base |-> NatToBits(now), clock_read |-> TRUE]

\* TimeStep as it would be without the division by the period
TimeStepNoDivision(tm_base, period) == tm_base

\* int(tm) for tm = tm_base / period
TimeStep(tm_base, period) == IntTrueDiv(tm_base, period)

\* PadSecret as it would be with remainder 7 left out of the set
PadSecretWithout7(secret) ==
    LET reminder == Len(secret) % 8
    IN  IF reminder \in {2, 4, 5}
        THEN secret \o [i \in 1..(8 - reminder) |-> "="]
        ELSE secret

\* the padding of the secret to a base32 length
PadSecret(secret) ==
    LET reminder == Len(secret) % 8
    IN  IF reminder \in {2, 4, 5, 7}
        THEN secret \o [i \in 1..(8 - reminder) |-> "="]
        ELSE secret

\* int.to_bytes(8, byteorder='big'): OverflowError from 2^64 on
ToBytes8(n) ==
    IF Len(n) > 64 THEN [ok |-> FALSE, msg |-> <<>>]
    ELSE [ok |-> TRUE, msg |-> Zeros(64 - Len(n)) \o n]

\* dynamic truncation of the digest to a 31-bit integer
Truncate(digest) ==
    LET offset == digest[Len(digest)] % 16
    IN  (digest[offset + 1] % 128) * 16777216 + digest[offset + 2] * 65536
        + digest[offset + 3] * 256 + digest[offset + 4]

\* FormatCode as it would be without zfill
FormatCodeNoFill(code_int, digits) == Str(code_int % Pow10(digits))

\* str(code_int % (10 ** digits)).zfill(digits)
FormatCode(code_int, digits) == Zfill(Str(code_int % Pow10(digits)), digits)

\* TimeLeft as it would be if it counted the running second as gone
TimeLeftOffByOne(tm_base, period) == period - DivMod(tm_base, period).r - 1

\* ttl = period - tm_base % period
TimeLeft(tm_base, period) == period - DivMod(tm_base, period).r

\* What a call gives and what it did on the way.  kind is "ok" (a TotpCode was
\* returned) or "error" (error names the exception; msg is the value its
\* message quotes).
NoOut ==
    [kind |-> "none", error |-> "", msg |-> <<>>, code |-> <<>>, code_int |-> 0,
     digits |-> 0, time_left |-> 0, period |-> 0, parsed |-> FALSE,
     clock_read |-> FALSE, decode_tried |-> FALSE, hmac_computed |-> FALSE,
     tm_base |-> <<>>, time_step |-> <<>>]

Raise(o, e, m) == [o EXCEPT !.kind = "error", !.error = e, !.msg = m]

GetTotpCode(u, now, orc) ==
    IF u.scheme # "otpauth" THEN Raise(NoOut, "InvalidScheme", <<>>)
    ELSE
    LET p == ParseParams(u.query)
        o1 == [NoOut EXCEPT !.parsed = TRUE]
        algorithm == Upper(p.algorithm)
    IN
    IF p.raised THEN Raise(o1, "ValueError", <<>>)
    ELSE IF ~p.hasSecret \/ p.secret = <<>> THEN Raise(o1, "MissingSecret", <<>>)
    ELSE IF algorithm \notin {SHA1, SHA256, SHA512}
    THEN Raise(o1, "UnsupportedAlgorithm", algorithm)
    ELSE IF p.digits \notin {NatToBits(6), NatToBits(7), NatToBits(8)}
    THEN Raise(o1, "InvalidDigits", <<>>)
    ELSE
    LET digits == ToNat(p.digits)
        period == ToNat(p.period)
        mf == MovingFactor(p.counter, now)
        tm == TimeStep(mf.tm_base, period)
        dec == B32Decode(PadSecret(p.secret))
        o2 == [o1 EXCEPT !.clock_read = mf.clock_read, !.tm_base = mf.tm_base,
                         !.digits = digits, !.period = period,
                         !.decode_tried = TRUE]
        tb == ToBytes8(tm)
    IN
    IF ~dec.ok THEN Raise(o2, "InvalidSecret", <<>>)
    ELSE IF ~tb.ok THEN Raise(o2, "OverflowError", <<>>)
    ELSE
    LET code_int == Truncate(Hmac(orc, dec.key, tb.msg, algorithm))
    IN  [o2 EXCEPT !.kind = "ok", !.hmac_computed = TRUE, !.time_step = tm,
                   !.code_int = code_int,
                   !.code = FormatCode(code_int, digits),
                   !.time_left = TimeLeft(mf.tm_base, period)]

\* ---------------------------------------------------------------- the URIs
Rep(c, n) == [i \in 1..n |-> c]

KV(k, v) == [k |-> k, v |-> v]

\* the pairs of a query that give key k the values vs, in order
Pairs(k, vs) == [i \in 1..Len(vs) |-> KV(k, vs[i])]

\* the value lists of a key given once
Once(values) == {<<v>> : v \in values}

\* the value list of a key the query does not give
Absent == <<>>

GoodSecret == <<"J", "B", "S", "W", "Y", "3", "D", "P">>

\* 2^64 - 1, 2^64, and 3 * (2^52 + 1) + 2
Counter64Max ==
    <<"1", "8", "4", "4", "6", "7", "4", "4", "0", "7",
      "3", "7", "0", "9", "5", "5", "1", "6", "1", "5">>
Counter64Over ==
    <<"1", "8", "4", "4", "6", "7", "4", "4", "0", "7",
      "3", "7", "0", "9", "5", "5", "1", "6", "1", "6">>
Counter53 ==
    <<"1", "3", "5", "1", "0", "7", "9", "8", "8", "8", "2", "1", "1", "1",
      "4", "9", "3">>

\* scheme, secret, algorithm and digits, each right, wrong or absent
FamOrder ==
    { [scheme |-> sc,
       query |-> Pairs("secret", se) \o Pairs("algorithm", al)
                 \o Pairs("digits", di)] :
        sc \in {"otpauth", "https"},
        se \in {Absent} \cup Once({<<>>, GoodSecret, Rep("A", 3),
                                   <<"A", "A", "A", "A", "A", "A", "A", "1">>}),
        al \in {Absent} \cup Once({SHA1, <<"s", "h", "a", "2", "5", "6">>,
                                   <<"S", "h", "a", "5", "1", "2">>,
                                   <<"m", "d", "5">>}),
        di \in {Absent} \cup Once({<<"5">>, <<"7">>, <<"9">>, <<"sup2">>}) }

NumVals ==
    {<<"7">>, <<"0">>, <<"-", "7">>, <<"x">>, <<"sup2">>, <<"ar3">>, <<>>}

\* the values one key takes in a query, in order
ValueLists == UNION {[1..n -> NumVals] : n \in 1..MaxDup}

\* a good secret and one numeric key, given up to MaxDup times
FamNumeric ==
    { [scheme |-> "otpauth",
       query |-> <<KV("secret", GoodSecret)>> \o Pairs(k, vs)] :
        k \in {"digits", "period", "counter"}, vs \in ValueLists }

SecretPatterns == {<<"A">>, <<"m", "Z", "7">>, <<"b", "2">>}

PatternSecret(pat, n) == [i \in 1..n |-> pat[((i - 1) % Len(pat)) + 1]]

\* secrets of every length, and two that carry their own padding
FamSecret ==
    { [scheme |-> "otpauth",
       query |-> <<KV("secret", se)>> \o Pairs("algorithm", al)] :
        se \in {PatternSecret(pat, n) : pat \in SecretPatterns,
                                         n \in 1..MaxSecretLen}
               \cup {Rep("A", 7) \o <<"=">>, Rep("=", 8)},
        al \in {Absent} \cup Once({<<"s", "h", "a", "2", "5", "6">>, SHA512}) }

\* periods and counters
FamTime ==
    { [scheme |-> "otpauth",
       query |-> <<KV("secret", GoodSecret)>> \o Pairs("period", pe)
                 \o Pairs("counter", co) \o Pairs("digits", di)] :
        pe \in {Absent} \cup Once({<<"1">>, <<"2">>, <<"3">>}),
        co \in {Absent} \cup Once({<<"5">>, <<"6">>, Counter53, Counter64Max,
                                   Counter64Over}),
        di \in {Absent} \cup Once({<<"8">>}) }

URIs == FamOrder \cup FamNumeric \cup FamSecret \cup FamTime

\* the clock starts at the epoch or shortly before a 30 second boundary
StartTimes == {0, 28}

Times == UNION {s..(s + MaxTicks) : s \in StartTimes}

\* ---------------------------------------------------------------- storage
\* FileKeyValueStorage.  The config file is there or not, and its text is a
\* sequence of the chunks json.dump writes.  A Python value is [type, v]; a
\* config (a dict) is a function from keys to Python values.

\* the key names (key.value of a ConfigKeys member), in sorted order
KeyOrder == <<"clientId", "privateKey">>

Keys == {KeyOrder[i] : i \in 1..Len(KeyOrder)}

PyStr(x) == [type |-> "str", v |-> x]
PyList == [type |-> "list", v |-> "1, 2"]
PyBytes == [type |-> "bytes", v |-> "k"]
PyNone == [type |-> "NoneType", v |-> ""]
PyBool(b) == [type |-> "bool", v |-> IF b THEN "True" ELSE "False"]

\* the values a caller passes to set()
Values == {PyStr("a"), PyStr("b"), PyList, PyBytes}

EmptyDict == [k \in {} |-> PyNone]

Chunk(tok, kind, v) == [tok |-> tok, kind |-> kind, v |-> v]

\* the JSON encoder on one value: TypeError for what JSON cannot hold
Encode(pv) ==
    IF pv.type = "str" THEN [ok |-> TRUE, chunk |-> Chunk("value", "string", pv.v)]
    ELSE IF pv.type = "list"
    THEN [ok |-> TRUE, chunk |-> Chunk("value", "array", pv.v)]
    ELSE IF pv.type = "NoneType"
    THEN [ok |-> TRUE, chunk |-> Chunk("value", "null", "")]
    ELSE [ok |-> FALSE, chunk |-> Chunk("value", "", "")]

\* the JSON decoder on one value
Decode(chunk) ==
    IF chunk.kind = "string" THEN PyStr(chunk.v)
    ELSE IF chunk.kind = "array" THEN [type |-> "list", v |-> chunk.v]
    ELSE PyNone

\* the chunks written for the first n of the keys ks, and whether the encoder
\* got through them: it writes a key before it looks at the value
RECURSIVE DumpItems(_,_,_)
DumpItems(config, ks, n) ==
    IF n = 0 THEN [ok |-> TRUE, text |-> <<Chunk("{", "", "")>>]
    ELSE LET before == DumpItems(config, ks, n - 1)
             e == Encode(config[ks[n]])
         IN  IF ~before.ok THEN before
             ELSE IF ~e.ok
             THEN [ok |-> FALSE,
                   text |-> Append(before.text, Chunk("key", "", ks[n]))]
             ELSE [ok |-> TRUE,
                   text |-> before.text \o <<Chunk("key", "", ks[n]), e.chunk>>]

\* json.dump(config, write_file, indent=4, sort_keys=True): what reaches the
\* file, and whether it raised TypeError on the way
Dump(config) ==
    LET ks == SelectSeq(KeyOrder, LAMBDA k : k \in DOMAIN config)
        items == DumpItems(config, ks, Len(ks))
    IN  IF ks = <<>> THEN [ok |-> TRUE, text |-> <<Chunk("{}", "", "")>>]
        ELSE IF items.ok
        THEN [ok |-> TRUE, text |-> Append(items.text, Chunk("}", "", ""))]
        ELSE items

\* json.load(config_file): ok is FALSE where it raises JSONDecodeError
Load(text) ==
    LET n == Len(text)
        pairs == (n - 2) \div 2
        wellFormed ==
            /\ n >= 4 /\ n % 2 = 0
            /\ text[1].tok = "{" /\ text[n].tok = "}"
            /\ \A i \in 1..pairs :
                   /\ text[2 * i].tok = "key"
                   /\ text[2 * i + 1].tok = "value"
    IN  IF n = 1 /\ text[1].tok = "{}" THEN [ok |-> TRUE, config |-> EmptyDict]
        ELSE IF wellFormed
        THEN [ok |-> TRUE,
              config |-> [k \in {text[2 * i].v : i \in 1..pairs} |->
                            Decode(text[1 + 2 * (CHOOSE i \in 1..pairs :
                                                    text[2 * i].v = k)])]]
        ELSE [ok |-> FALSE, config |-> EmptyDict]

\* create_config_file_if_missing
CreateConfigFileIfMissing(f) ==
    IF f.exists THEN f ELSE [exists |-> TRUE, text |-> <<>>]

\* save_storage: open(..., "w") empties the file and json.dump writes into it
SaveStorage(f, config) ==
    LET d == Dump(config)
    IN  [file |-> [exists |-> TRUE, text |-> d.text], raised |-> ~d.ok]

\* read_storage: the config read and the file it leaves
ReadStorage(f) ==
    LET created == CreateConfigFileIfMissing(f)
        loaded == Load(created.text)
    IN  IF loaded.ok THEN [config |-> loaded.config, file |-> created]
        ELSE [config |-> EmptyDict, file |-> SaveStorage(created, EmptyDict).file]

With(config, k, v) ==
    [x \in DOMAIN config \cup {k} |-> IF x = k THEN v ELSE config[x]]

Without(config, k) == [x \in DOMAIN config \ {k} |-> config[x]]

NoRet ==
    [op |-> "none", key |-> "", raised |-> FALSE, value |-> PyNone]

\* get(key)
Get(k) ==
    LET r == ReadStorage(file)
    IN  /\ file' = r.file
        /\ ret' = [op |-> "get", key |-> k, raised |-> FALSE,
                   value |-> IF k \in DOMAIN r.config THEN r.config[k] ELSE PyNone]
        /\ UNCHANGED <<shadow, url, oracle, clock, last, prev>>

\* set(key, value); a call that raises leaves the caller's map as it was
Set(k, v) ==
    LET r == ReadStorage(file)
        s == SaveStorage(r.file, With(r.config, k, v))
    IN  /\ file' = s.file
        /\ ret' = [op |-> "set", key |-> k, raised |-> s.raised, value |-> v]
        /\ shadow' = IF s.raised THEN shadow ELSE With(shadow, k, v)
        /\ UNCHANGED <<url, oracle, clock, last, prev>>

\* delete(key)
Delete(k) ==
    LET r == ReadStorage(file)
        s == SaveStorage(r.file, Without(r.config, k))
    IN  /\ file' = s.file
        /\ ret' = [op |-> "delete", key |-> k, raised |-> s.raised,
                   value |-> PyNone]
        /\ shadow' = Without(shadow, k)
        /\ UNCHANGED <<url, oracle, clock, last, prev>>

\* delete_all()
DeleteAll ==
    LET r == ReadStorage(file)
        s == SaveStorage(r.file, EmptyDict)
    IN  /\ file' = s.file
        /\ ret' = [op |-> "delete_all", key |-> "", raised |-> s.raised,
                   value |-> PyNone]
        /\ shadow' = EmptyDict
        /\ UNCHANGED <<url, oracle, clock, last, prev>>

\* contains(key)
Contains(k) ==
    LET r == ReadStorage(file)
    IN  /\ file' = r.file
        /\ ret' = [op |-> "contains", key |-> k, raised |-> FALSE,
                   value |-> PyBool(k \in DOMAIN r.config)]
        /\ UNCHANGED <<shadow, url, oracle, clock, last, prev>>

\* ---------------------------------------------------------------- the client
NoCall == [t |-> -1, out |-> NoOut]

StorageIdle ==
    /\ file = [exists |-> FALSE, text |-> <<>>]
    /\ shadow = EmptyDict
    /\ ret = NoRet

Init ==
    /\ url \in URIs
    /\ oracle \in (IF url \in FamTime THEN {"mix", "low", "high"} ELSE {"mix"})
    /\ clock \in StartTimes
    /\ last = NoCall
    /\ prev = NoCall
    /\ StorageIdle

\* a second passes
Tick ==
    /\ clock + 1 \in Times
    /\ clock' = clock + 1
    /\ UNCHANGED <<url, oracle, last, prev, file, shadow, ret>>

\* the client calls get_totp_code(url)
Call ==
    /\ last' = [t |-> clock, out |-> GetTotpCode(url, clock, oracle)]
    /\ prev' = last
    /\ UNCHANGED <<url, oracle, clock, file, shadow, ret>>

Next == Tick \/ Call

Spec == Init /\ [][Next]_vars

\* the storage on its own: the file is missing or empty at the start
ClientIdle ==
    /\ url = [scheme |-> "otpauth", query |-> <<KV("secret", GoodSecret)>>]
    /\ oracle = "mix"
    /\ clock = 0
    /\ last = NoCall
    /\ prev = NoCall

InitStorage ==
    /\ file \in {[exists |-> FALSE, text |-> <<>>], [exists |-> TRUE, text |-> <<>>]}
    /\ shadow = EmptyDict
    /\ ret = NoRet
    /\ ClientIdle

NextStorage ==
    \/ \E k \in Keys : Get(k)
    \/ \E k \in Keys, v \in Values : Set(k, v)
    \/ \E k \in Keys : Delete(k)
    \/ DeleteAll
    \/ \E k \in Keys : Contains(k)

SpecStorage == InitStorage /\ [][NextStorage]_vars

\* ---------------------------------------------------------------- what the URI says
\* Read off the text of the URI, for stating the properties.

\* the non-blank values the query gives key k, in order
ValuesOf(k) == SelectSeq(url.query, LAMBDA kv : kv.k = k /\ kv.v # <<>>)

AsciiDigits == {"0", "1", "2", "3", "4", "5", "6", "7", "8", "9"}

\* v is the decimal text of an integer > 0 (in the digits of any script)
PositiveInteger(v) ==
    /\ v # <<>>
    /\ \A i \in 1..Len(v) : v[i] \in DOMAIN DecimalValue
    /\ \E i \in 1..Len(v) : DecimalValue[v[i]] # 0

\* v is blank, zero, or has a character that is no digit of any script
NotAPositiveInteger(v) ==
    \/ v = <<>>
    \/ \E i \in 1..Len(v) : v[i] \notin DOMAIN DecimalValue
    \/ \A i \in 1..Len(v) : DecimalValue[v[i]] = 0

\* the URI supplies counter > 0
CounterGiven == \E i \in 1..Len(url.query) :
    url.query[i].k = "counter" /\ PositiveInteger(url.query[i].v)

\* every counter the URI gives is absent, malformed or not > 0
CounterNotGiven == \A i \in 1..Len(url.query) :
    url.query[i].k = "counter" => NotAPositiveInteger(url.query[i].v)

\* the secret the URI gives
SecretGiven == ValuesOf("secret") # <<>>
SecretText == ValuesOf("secret")[Len(ValuesOf("secret"))].v

\* s is made of characters of the base32 alphabet, in either case
AlphabetOnly(s) ==
    \A i \in 1..Len(s) : \E j \in 1..32 : B32Alphabet[j] = UpperChar(s[i])

SameResult(a, b) ==
    /\ a.kind = b.kind
    /\ a.code = b.code
    /\ a.time_left = b.time_left
    /\ a.period = b.period

Returned(c) == c.out.kind = "ok"

\* ---------------------------------------------------------------- properties
\* C1: whenever get_totp_code returns a result computed from the wall clock
\* (no counter > 0 in effect), 1 <= time_left <= period and period >= 1.
C1_TimeLeftInRange ==
    (Returned(last) /\ last.out.clock_read) =>
        /\ last.out.period >= 1
        /\ 1 <= last.out.time_left
        /\ last.out.time_left <= last.out.period

\* C1 witness: a wall-clock result in the last second of a 30 second period,
\* and one in the first second of a period.
C1_Witness ==
    /\ Returned(last) /\ last.out.clock_read
    /\ last.out.period = 30 /\ last.out.time_left = 1
    /\ Returned(prev) /\ prev.out.time_left = 30 - 28

\* the decimal value of the digits text s[1..n]
RECURSIVE TextValue(_,_)
TextValue(s, n) ==
    IF n = 0 THEN 0
    ELSE 10 * TextValue(s, n - 1)
         + (CHOOSE d \in 0..9 : DigitChars[d + 1] = s[n])

\* C2: whenever get_totp_code returns a result, code is a text of exactly
\* `digits` decimal digits (digits one of 6, 7, 8) whose value is the truncated
\* integer mod 10^digits, so short values are left-padded with zeros.
C2_CodeLength ==
    Returned(last) =>
        /\ last.out.digits \in {6, 7, 8}
        /\ Len(last.out.code) = last.out.digits
        /\ \A i \in 1..Len(last.out.code) : last.out.code[i] \in AsciiDigits
        /\ TextValue(last.out.code, Len(last.out.code))
               = last.out.code_int % Pow10(last.out.digits)

\* C2 witness: the truncated value 42 with 6 digits gives "000042".
C2_Witness ==
    /\ Returned(last)
    /\ last.out.code_int = 42
    /\ last.out.digits = 6
    /\ last.out.code = <<"0", "0", "0", "0", "4", "2">>

\* C5: for a secret of base32 characters of length n that reaches decoding,
\* the secret is padded with '=' to the next multiple of 8 exactly when n mod 8
\* is in {2,4,5,7}, and the call fails with InvalidSecret exactly when n mod 8
\* is in {1,3,6}.
C5_PaddingRule ==
    (last.out.decode_tried /\ SecretGiven /\ AlphabetOnly(SecretText)) =>
        LET n == Len(SecretText)
            padded == PadSecret(SecretText)
        IN  /\ (n % 8 \in {1, 3, 6}) <=> (last.out.error = "InvalidSecret")
            /\ Len(padded) = (IF n % 8 \in {2, 4, 5, 7}
                              THEN 8 * ((n \div 8) + 1) ELSE n)
            /\ SubSeq(padded, 1, n) = SecretText
            /\ \A i \in (n + 1)..Len(padded) : padded[i] = "="

\* C5 witness: a secret of 7 base32 characters, padded and decoded, gives a
\* result.
C5_Witness ==
    /\ Returned(last)
    /\ SecretGiven /\ AlphabetOnly(SecretText)
    /\ Len(SecretText) = 7

\* C6: with no counter in effect, calls at t and t+1 for the same URI return
\* the same code and a time_left one less when both seconds lie in one period,
\* and time_left = period when t+1 starts a period.
C6_OneSecondApart ==
    ( /\ Returned(prev) /\ Returned(last)
      /\ prev.out.clock_read /\ last.out.clock_read
      /\ last.t = prev.t + 1 ) =>
        LET period == last.out.period
        IN  IF prev.t \div period = last.t \div period
            THEN /\ last.out.code = prev.out.code
                 /\ last.out.time_left = prev.out.time_left - 1
            ELSE last.out.time_left = period

\* C6 witness: two wall-clock results one second apart inside one period.
C6_Witness ==
    /\ Returned(prev) /\ Returned(last)
    /\ prev.out.clock_read /\ last.out.clock_read
    /\ last.t = prev.t + 1
    /\ prev.t \div last.out.period = last.t \div last.out.period
    /\ oracle = "mix"

\* C8: when the URI supplies counter > 0, the moving factor is that counter and
\* the clock is not read, so calls at different times agree in every field;
\* when the counter is absent or not > 0, the moving factor is the clock.
C8_CounterOverridesClock ==
    /\ (last.out.decode_tried /\ CounterGiven) =>
           /\ ~last.out.clock_read
           /\ \E i \in 1..Len(url.query) :
                  /\ url.query[i].k = "counter"
                  /\ PositiveInteger(url.query[i].v)
                  /\ last.out.tm_base = IntOf(url.query[i].v)
    /\ (last.out.decode_tried /\ prev.out.decode_tried /\ CounterGiven) =>
           SameResult(prev.out, last.out)
    /\ (last.out.decode_tried /\ CounterNotGiven) =>
           /\ last.out.clock_read
           /\ last.out.tm_base = NatToBits(last.t)

\* C8 witness: two results for a URI with a counter, at different times.
C8_Witness ==
    /\ Returned(prev) /\ Returned(last)
    /\ CounterGiven
    /\ prev.t # last.t
    /\ oracle = "mix"

SchemeOk == url.scheme = "otpauth"

\* the algorithm the URI names (SHA1 when it names none)
AlgorithmText ==
    IF ValuesOf("algorithm") = <<>> THEN SHA1
    ELSE ValuesOf("algorithm")[Len(ValuesOf("algorithm"))].v

AlgorithmSupported == Upper(AlgorithmText) \in {SHA1, SHA256, SHA512}

FiveKinds ==
    {"InvalidScheme", "MissingSecret", "UnsupportedAlgorithm", "InvalidDigits",
     "InvalidSecret"}

NumericKeys == {"digits", "period", "counter"}

\* every value the query gives key k, blank ones too, fails to parse as a
\* positive integer
NoneParses(k) == \A i \in 1..Len(url.query) :
    url.query[i].k = k => NotAPositiveInteger(url.query[i].v)

\* every digits, period and counter the query gives is a positive integer
NumericWellFormed == \A i \in 1..Len(url.query) :
    url.query[i].k \in NumericKeys => PositiveInteger(url.query[i].v)

Called == last.out.kind # "none"

\* C3: the checks run in the order InvalidScheme, MissingSecret,
\* UnsupportedAlgorithm, InvalidDigits, InvalidSecret and the first fault in
\* that order is the one reported: a wrong scheme before the query is parsed,
\* an unsupported algorithm before the clock is read, the secret decoded or an
\* HMAC computed, invalid digits before the secret is decoded.
C3_Original ==
    Called =>
        IF ~SchemeOk
        THEN last.out.error = "InvalidScheme" /\ ~last.out.parsed
        ELSE IF ~SecretGiven THEN last.out.error = "MissingSecret"
        ELSE IF ~AlgorithmSupported
        THEN /\ last.out.error = "UnsupportedAlgorithm"
             /\ ~last.out.clock_read
             /\ ~last.out.decode_tried
             /\ ~last.out.hmac_computed
        ELSE last.out.error = "InvalidSecret" => last.out.digits \in {6, 7, 8}

\* C4: no value of digits, period or counter raises an error, and a key whose
\* values all fail to parse as a positive integer keeps its default (digits 6,
\* period 30, counter 0, so the clock is read).
C4_Original ==
    (Called /\ SchemeOk) =>
        /\ last.out.error # "ValueError"
        /\ (last.out.decode_tried /\ NoneParses("digits")) =>
               last.out.digits = DefaultDigits
        /\ (last.out.decode_tried /\ NoneParses("period")) =>
               last.out.period = DefaultPeriod
        /\ (last.out.decode_tried /\ NoneParses("counter")) =>
               last.out.clock_read

\* C7: an algorithm that matches none of SHA1, SHA256, SHA512 without regard to
\* case fails with UnsupportedAlgorithm and the message quotes the value as the
\* URI gave it; every case variant of the three names is accepted.  (Stated for
\* the URIs that have a secret and whose numeric values are well formed.)
C7_Original ==
    (Called /\ SchemeOk /\ SecretGiven /\ NumericWellFormed) =>
        IF AlgorithmSupported
        THEN last.out.error # "UnsupportedAlgorithm"
        ELSE /\ last.out.error = "UnsupportedAlgorithm"
             /\ last.out.msg = AlgorithmText

\* C9: the five error kinds are the only failures: with every digits, period
\* and counter of the URI a positive integer, of any size, a call fails only
\* with one of the five, and a result rests on
\* time_step = floor(moving_factor / period).
C9_Original ==
    (Called /\ SchemeOk /\ NumericWellFormed) =>
        /\ last.out.kind = "error" => last.out.error \in FiveKinds
        /\ Returned(last) =>
               last.out.time_step
                   = DivMod(last.out.tm_base, last.out.period).q

\* the map the file holds, as read_storage would find it
Stored ==
    IF file.exists /\ Load(file.text).ok THEN Load(file.text).config
    ELSE EmptyDict

\* C10: the store is a map: after every call the file holds the map the
\* caller's set, delete and delete_all calls describe (so set and delete leave
\* the other keys alone and get and contains change nothing), get returns the
\* value last set or None, contains tells whether there is one, and delete
\* never fails.
C10_Original ==
    /\ Stored = shadow
    /\ ret.op = "get" =>
           ret.value = (IF ret.key \in DOMAIN shadow THEN shadow[ret.key]
                        ELSE PyNone)
    /\ ret.op = "contains" => ret.value = PyBool(ret.key \in DOMAIN shadow)
    /\ ret.op \in {"delete", "delete_all"} => ~ret.raised

====
